---- MODULE Spec2Model ----
(***************************************************************************)
(* Model of xformers/ops/fmha/flash.py: the layout converter               *)
(* (_convert_input_format), the support validators (FwOp / BwOp            *)
(* not_supported_reasons and their helpers) and the forward / backward     *)
(* orchestrators (FwOp.apply, BwOp.apply).                                 *)
(*                                                                         *)
(* A tensor is a record [shape, stride, base, offset]: its sizes, its      *)
(* element strides, the identity of the allocation it lives in and its     *)
(* element offset inside that allocation.  Element values are not          *)
(* modelled: the adaptation layer never reads them.                        *)
(***************************************************************************)
EXTENDS Integers, Sequences, FiniteSets, TLC

(* ------------------------------ bounds -------------------------------- *)
MaxBatch == 2
MaxSeqlen == 2
MaxHeads == 2
MaxBlocks == 2

(* -------------------------- program constants ------------------------- *)
SUPPORTED_MAX_K == 256
MAX_HEADDIM_SM8x == 192
LASTDIM_ALIGNMENT == 8
BW_SUPPORTED_EMBED_DIMS == {8, 16, 32, 64, 128, 256}
FW_SUPPORTS_BMGHK == TRUE
BW_SUPPORTS_BMGHK == FALSE

(* ------------------------- sequence helpers --------------------------- *)
RECURSIVE Prod(_)
Prod(s) == IF Len(s) = 0 THEN 1 ELSE Head(s) * Prod(Tail(s))

RECURSIVE SeqMax(_)
SeqMax(s) == IF Len(s) = 0 THEN 0
             ELSE LET m == SeqMax(Tail(s)) IN IF Head(s) > m THEN Head(s) ELSE m

Last(s) == s[Len(s)]
Front(s) == SubSeq(s, 1, Len(s) - 1)
DropAt(s, d) == SubSeq(s, 1, d - 1) \o SubSeq(s, d + 1, Len(s))

(* Row-major strides of a freshly allocated tensor of the given shape. *)
ContigStrides(shape) ==
    [i \in 1..Len(shape) |-> Prod(SubSeq(shape, i + 1, Len(shape)))]

(* Offsets of a ragged batch: [0, l1, l1+l2, ...]. *)
RECURSIVE CumSum(_, _)
CumSum(acc, lens) ==
    IF Len(lens) = 0 THEN <<acc>>
    ELSE <<acc>> \o CumSum(acc + Head(lens), Tail(lens))

(* ------------------------- torch primitives --------------------------- *)
Numel(x) == Prod(x.shape)
Ndim(x) == Len(x.shape)

(* torch.empty / new_empty: a new allocation, contiguous. *)
Empty(shape, fresh) ==
    [shape |-> shape, stride |-> ContigStrides(shape), base |-> fresh, offset |-> 0]

(* torch.empty_like: a new allocation with the shape of x.  Every tensor   *)
(* it is applied to here is contiguous or not dense, so the result is      *)
(* contiguous.                                                             *)
EmptyLike(x, fresh) == Empty(x.shape, fresh)

(* x.select(dim, index), also x[:, :, :, 0]: a view without axis dim. *)
Select(x, dim, index) ==
    [shape |-> DropAt(x.shape, dim), stride |-> DropAt(x.stride, dim),
     base |-> x.base, offset |-> x.offset + index * x.stride[dim]]

(* torch.arange(start, end, step) for a positive step. *)
Arange(start, end, step) ==
    LET n == IF end <= start THEN 0 ELSE ((end - start) + step - 1) \div step
    IN  [i \in 1..n |-> start + (i - 1) * step]

(* The size list of a reshape, with at most one -1 entry inferred from the *)
(* element count.  <<>> stands for the RuntimeError torch raises when the  *)
(* element counts cannot match.                                            *)
InferShape(numel, target) ==
    LET known == Prod([i \in 1..Len(target) |-> IF target[i] = -1 THEN 1 ELSE target[i]])
        hasInfer == \E i \in 1..Len(target) : target[i] = -1
    IN  IF hasInfer
        THEN IF known > 0 /\ numel % known = 0
             THEN [i \in 1..Len(target) |->
                      IF target[i] = -1 THEN numel \div known ELSE target[i]]
             ELSE <<>>
        ELSE IF known = numel THEN target ELSE <<>>

(* at::detail::computeStride: the strides of a view of (oldshape,          *)
(* oldstride) with sizes newshape, when one exists.  ViewFill is its inner *)
(* while loop, ViewChunks the outer loop over the old axes, last to first. *)
RECURSIVE ViewFill(_, _, _, _, _, _)
ViewFill(newshape, newstride, view_d, view_numel, tensor_numel, chunk_base) ==
    IF view_d >= 1 /\ (view_numel < tensor_numel \/ newshape[view_d] = 1)
    THEN ViewFill(newshape,
                  [newstride EXCEPT ![view_d] = view_numel * chunk_base],
                  view_d - 1, view_numel * newshape[view_d],
                  tensor_numel, chunk_base)
    ELSE [view_d |-> view_d, view_numel |-> view_numel, newstride |-> newstride]

RECURSIVE ViewChunks(_, _, _, _, _, _, _, _)
ViewChunks(oldshape, oldstride, newshape, newstride, tensor_d, view_d, chunk_base, numel_in) ==
    LET tensor_numel == numel_in * oldshape[tensor_d] IN
    IF tensor_d = 1
       \/ (oldshape[tensor_d - 1] # 1
           /\ oldstride[tensor_d - 1] # tensor_numel * chunk_base)
    THEN LET f == ViewFill(newshape, newstride, view_d, 1, tensor_numel, chunk_base) IN
         IF f.view_numel # tensor_numel
         THEN [ok |-> FALSE, stride |-> <<>>]
         ELSE IF tensor_d > 1
              THEN ViewChunks(oldshape, oldstride, newshape, f.newstride,
                              tensor_d - 1, f.view_d, oldstride[tensor_d - 1], 1)
              ELSE [ok |-> f.view_d = 0, stride |-> f.newstride]
    ELSE ViewChunks(oldshape, oldstride, newshape, newstride,
                    tensor_d - 1, view_d, chunk_base, tensor_numel)

ComputeStride(oldshape, oldstride, newshape) ==
    ViewChunks(oldshape, oldstride, newshape, [i \in 1..Len(newshape) |-> 0],
               Len(oldshape), Len(newshape), Last(oldstride), 1)

(* x.reshape(target) raises exactly when the sizes cannot be inferred. *)
ReshapeOk(x, target) == InferShape(Numel(x), target) # <<>>

(* x.reshape(target): a view of x when the strides allow one, otherwise a  *)
(* contiguous copy in the new allocation `fresh`.                          *)
Reshape(x, target, fresh) ==
    LET shape == InferShape(Numel(x), target)
        v == ComputeStride(x.shape, x.stride, shape)
    IN  IF v.ok
        THEN [shape |-> shape, stride |-> v.stride, base |-> x.base, offset |-> x.offset]
        ELSE Empty(shape, fresh)

(* ------------------------- mask descriptors --------------------------- *)
(* An attn_bias is [kind, q_seqstart, k_seqstart, q_max_seqlen,            *)
(* k_max_seqlen]; the offset tables are empty for the variants that carry  *)
(* none.                                                                   *)
NoBias == "None"
LowerTriangularMask == "LowerTriangularMask"
BlockDiagonalMask == "BlockDiagonalMask"
BlockDiagonalCausalMask == "BlockDiagonalCausalMask"
BlockDiagonalCausalFromBottomRightMask == "BlockDiagonalCausalFromBottomRightMask"

(* The class hierarchy of attn_bias: both causal block-diagonal variants   *)
(* refine BlockDiagonalMask, and neither refines the other.                *)
Bases(kind) ==
    IF kind \in {BlockDiagonalCausalMask, BlockDiagonalCausalFromBottomRightMask}
    THEN {kind, BlockDiagonalMask}
    ELSE {kind}

IsInstance(bias, classes) == Bases(bias.kind) \cap classes # {}

DenseBias(kind) ==
    [kind |-> kind, q_seqstart |-> <<>>, k_seqstart |-> <<>>,
     q_max_seqlen |-> 0, k_max_seqlen |-> 0]

(* BlockDiagonalMask.from_seqlens: offsets and true per-block maxima. *)
RaggedBias(kind, q_lens, k_lens) ==
    [kind |-> kind, q_seqstart |-> CumSum(0, q_lens), k_seqstart |-> CumSum(0, k_lens),
     q_max_seqlen |-> SeqMax(q_lens), k_max_seqlen |-> SeqMax(k_lens)]

(* --------------------------- input domain ----------------------------- *)
(* Physical layouts an input tensor can arrive in.                         *)
(*   contig : freshly allocated, row-major                                 *)
(*   packed : rank 4, one of the three slices of a [B, S, 3, H, K] tensor  *)
(*   bsT    : rank 4, a [S, B, H, K] tensor with its first two axes        *)
(*            transposed                                                   *)
(*   bcast  : rank 5, a [B, S, G, 1, K] tensor expanded along the          *)
(*            per-group-head axis (stride 0)                               *)
(*   ghT    : rank 5, a [B, S, H, G, K] tensor with axes 2 and 3 transposed*)
LayoutStride(shape, layout) ==
    LET n == Len(shape) IN
    CASE layout = "packed" ->
            <<shape[2] * 3 * shape[3] * shape[4], 3 * shape[3] * shape[4], shape[4], 1>>
      [] layout = "bsT" ->
            <<shape[3] * shape[4], shape[1] * shape[3] * shape[4], shape[4], 1>>
      [] layout = "bcast" ->
            <<shape[2] * shape[3] * shape[5], shape[3] * shape[5], shape[5], 0, 1>>
      [] layout = "ghT" ->
            <<shape[2] * shape[3] * shape[4] * shape[5], shape[3] * shape[4] * shape[5],
              shape[5], shape[3] * shape[5], 1>>
      [] OTHER -> ContigStrides(shape)

(* slot is 0, 1, 2 for query, key, value.  With shared = TRUE the three    *)
(* tensors are views of allocation 1, otherwise tensor slot owns           *)
(* allocation slot + 1.                                                    *)
MkTensor(shape, layout, shared, slot) ==
    [shape |-> shape, stride |-> LayoutStride(shape, layout),
     base |-> IF shared THEN 1 ELSE slot + 1,
     offset |-> IF ~shared THEN 0
                ELSE IF layout = "packed" THEN slot * shape[3] * shape[4]
                ELSE slot * 3 * Prod(shape)]

HeadShape(rank, G, H) == IF rank = 5 THEN <<G, H>> ELSE <<H>>

(* p is the dropout probability in tenths; scale "None" is the default.    *)
MkInput(B, Sq, Sk, rank, G, H, K, Kv, lq, lk, lv, shared, bias, p) ==
    [query |-> MkTensor(<<B, Sq>> \o HeadShape(rank, G, H) \o <<K>>, lq, shared, 0),
     key |-> MkTensor(<<B, Sk>> \o HeadShape(rank, G, H) \o <<K>>, lk, shared, 1),
     value |-> MkTensor(<<B, Sk>> \o HeadShape(rank, G, H) \o <<Kv>>, lv, shared, 2),
     attn_bias |-> bias, p |-> p, scale |-> "None"]

HeadDims == {8, 24, 256, 264}
DropoutTenths == {0, 5}

(* Head dimensions, dropout and storage sharing of the rank-4 dense        *)
(* inputs.                                                                 *)
DenseScalars ==
    {[K |-> k, Kv |-> k, p |-> 0, shared |-> FALSE] : k \in HeadDims}
    \cup {[K |-> 8, Kv |-> kv, p |-> c[1], shared |-> c[2]] :
            kv \in {8, 16}, c \in {<<0, TRUE>>, <<5, FALSE>>, <<5, TRUE>>}}
    \cup {[K |-> 8, Kv |-> 16, p |-> 0, shared |-> FALSE]}

(* ... of the grouped (rank-5) dense inputs ... *)
GroupedScalars ==
    {[K |-> 8, Kv |-> 8, p |-> 0, shared |-> FALSE],
     [K |-> 8, Kv |-> 8, p |-> 0, shared |-> TRUE],
     [K |-> 8, Kv |-> 16, p |-> 5, shared |-> FALSE]}

(* ... and of the ragged inputs. *)
RaggedScalars ==
    {[K |-> 8, Kv |-> 8, p |-> p, shared |-> s] : p \in DropoutTenths, s \in BOOLEAN}

Layouts4 == {"contig", "packed", "bsT"}
Layouts5 == {"contig", "bcast", "ghT"}

(* [rank, G, H, layouts of query / key / value, K, Kv, p, shared] *)
DenseConfigs ==
    {[rank |-> 4, G |-> 1, H |-> h, lay |-> <<l, l, l>>, sc |-> sc] :
        h \in 1..MaxHeads, l \in Layouts4, sc \in DenseScalars}
    \cup {[rank |-> 5, G |-> g, H |-> h, lay |-> l, sc |-> sc] :
            g \in 1..MaxHeads, h \in 1..MaxHeads,
            l \in Layouts5 \X Layouts5 \X Layouts5, sc \in GroupedScalars}

RaggedConfigs ==
    {[rank |-> 4, G |-> 1, H |-> h, lay |-> <<"contig", "contig", "contig">>, sc |-> sc] :
        h \in {1, MaxHeads}, sc \in RaggedScalars}
    \cup {[rank |-> 5, G |-> MaxHeads, H |-> MaxHeads, lay |-> <<"contig", l, l>>,
           sc |-> [K |-> 8, Kv |-> 8, p |-> 0, shared |-> FALSE]] :
            l \in {"contig", "bcast"}}

BlockLens == UNION {[1..n -> 1..MaxSeqlen] : n \in 1..MaxBlocks}

DenseInputs ==
    {MkInput(B, Sq, Sk, c.rank, c.G, c.H, c.sc.K, c.sc.Kv, c.lay[1], c.lay[2], c.lay[3],
             c.sc.shared, DenseBias(kind), c.sc.p) :
        B \in 1..MaxBatch, Sq \in 1..MaxSeqlen, Sk \in 1..MaxSeqlen,
        c \in DenseConfigs, kind \in {NoBias, LowerTriangularMask}}

(* A ragged batch arrives as one row of concatenated tokens. *)
RaggedInputs ==
    {MkInput(1, CumSum(0, ql)[Len(ql) + 1], CumSum(0, kl)[Len(kl) + 1],
             c.rank, c.G, c.H, c.sc.K, c.sc.Kv, c.lay[1], c.lay[2], c.lay[3],
             c.sc.shared, RaggedBias(kind, ql, kl), c.sc.p) :
        ql \in BlockLens, kl \in BlockLens, c \in RaggedConfigs,
        kind \in {BlockDiagonalMask, BlockDiagonalCausalMask,
                  BlockDiagonalCausalFromBottomRightMask}}

Inputs == DenseInputs \cup RaggedInputs

(* -------------------------- layout converter -------------------------- *)
(* The offset table of a dense batch: arange(0, (batch + 1) * seqlen,      *)
(* step = seqlen).                                                         *)
DenseOffsets_short(batch, seqlen) == Arange(0, batch * seqlen, seqlen)

DenseOffsets(batch, seqlen) == Arange(0, (batch + 1) * seqlen, seqlen)

fold_select_group(x, fresh) ==
    IF x.stride[4] = 0
    THEN Select(x, 3, 0)
    ELSE Reshape(x, <<x.shape[1], x.shape[2], -1, x.shape[5]>>, fresh)

(* fold: collapse the group / head-in-group axes of a rank-5 tensor. *)
fold(x, fresh) ==
    IF x.stride[4] = 0
    THEN Select(x, 4, 0)
    ELSE Reshape(x, <<x.shape[1], x.shape[2], -1, x.shape[5]>>, fresh)

(* The allocations heap .. heap + 5 are the ones the six reshapes may      *)
(* copy into.  ok is FALSE when one of the reshapes raises; folded keeps   *)
(* the tensors as they are between the fold and the flattening.            *)
_convert_input_format(inp, heap) ==
    LET batch == inp.query.shape[1]
        seqlen_q == inp.query.shape[2]
        seqlen_kv == inp.key.shape[2]
        head_dim_q == Last(inp.query.shape)
        head_dim_v == Last(inp.value.shape)
        attn_bias == inp.attn_bias
        ragged == IsInstance(attn_bias, {BlockDiagonalMask})
        cu_seqlen_k == IF ragged THEN attn_bias.k_seqstart
                       ELSE DenseOffsets(batch, seqlen_kv)
        cu_seqlen_q == IF ragged THEN attn_bias.q_seqstart
                       ELSE IF seqlen_q = seqlen_kv THEN cu_seqlen_k
                       ELSE DenseOffsets(batch, seqlen_q)
        is5 == Ndim(inp.query) = 5
        query == IF is5 THEN fold(inp.query, heap) ELSE inp.query
        key == IF is5 THEN fold(inp.key, heap + 1) ELSE inp.key
        value == IF is5 THEN fold(inp.value, heap + 2) ELSE inp.value
        tq == <<batch * seqlen_q, -1, head_dim_q>>
        tk == <<batch * seqlen_kv, -1, head_dim_q>>
        tv == <<batch * seqlen_kv, -1, head_dim_v>>
        ok == ReshapeOk(query, tq) /\ ReshapeOk(key, tk) /\ ReshapeOk(value, tv)
    IN  [ok |-> ok,
         folded |-> [query |-> query, key |-> key, value |-> value],
         inp |-> IF ok
                 THEN [inp EXCEPT !.query = Reshape(query, tq, heap + 3),
                                  !.key = Reshape(key, tk, heap + 4),
                                  !.value = Reshape(value, tv, heap + 5)]
                 ELSE inp,
         softmax_scale |-> IF inp.scale = "None"
                           THEN <<"rsqrt", Last(inp.query.shape)>>
                           ELSE <<"given", inp.scale>>,
         cu_seqlen_q |-> cu_seqlen_q,
         max_seqlen_q |-> IF ragged THEN attn_bias.q_max_seqlen ELSE seqlen_q,
         cu_seqlen_k |-> cu_seqlen_k,
         max_seqlen_k |-> IF ragged THEN attn_bias.k_max_seqlen ELSE seqlen_kv]

_is_causal_top_left_only(attn_bias) ==
    IsInstance(attn_bias, {LowerTriangularMask, BlockDiagonalCausalMask})

_is_causal(attn_bias) ==
    IsInstance(attn_bias, {LowerTriangularMask, BlockDiagonalCausalMask,
                           BlockDiagonalCausalFromBottomRightMask})

(* ------------------------------ validators ---------------------------- *)
(* A reason is [tag, name, stride, shape, dim]: the text of the message    *)
(* and the values formatted into it; the fields a reason does not mention  *)
(* are empty.                                                              *)
MSG_TOPLEFT_BLOCKDIAGONAL ==
    "Only support BlockDiagonalCausalMask if equal numbers of keys and queries"
MSG_TOPLEFT_LOWERTRIANGULAR ==
    "Only support LowerTriangularMask if equal number ofkeys and queries"
MSG_GQA == "GQA is only supported when the G/H dimensions are contiguous"
MSG_EMBED_DIM == "Embed dim not supported"
MSG_SM8x == "requires a GPU with compute capability 8.0 (A100) or 9.0 (H100)"
MSG_MAX_K == "head dimension above SUPPORTED_MAX_K"
MSG_BMGHK == "operator does not support BMGHK format"
MSG_LASTDIM_ALIGNMENT == "last dimension is not a multiple of the alignment"
MSG_LASTDIM_STRIDE == "last dimension is not contiguous"

Reason(tag) == [tag |-> tag, name |-> "", stride |-> <<>>, shape |-> <<>>, dim |-> 0]

ZipShortest(a, b) ==
    LET n == IF Len(a) < Len(b) THEN Len(a) ELSE Len(b) IN
    [i \in 1..n |-> <<a[i], b[i]>>]

(* zip_longest pads the shorter table with None, written -1 here: no       *)
(* offset equals it.                                                       *)
ZipLongest(a, b) ==
    LET n == IF Len(a) > Len(b) THEN Len(a) ELSE Len(b) IN
    [i \in 1..n |-> <<IF i <= Len(a) THEN a[i] ELSE -1,
                      IF i <= Len(b) THEN b[i] ELSE -1>>]

(* The for loop of _check_needs_no_topleft, from pair i on. *)
RECURSIVE TopleftLoop(_, _, _)
TopleftLoop(pairs, i, reasons) ==
    IF i > Len(pairs) THEN reasons
    ELSE IF pairs[i][1] # pairs[i][2]
         THEN Append(reasons, Reason(MSG_TOPLEFT_BLOCKDIAGONAL))
         ELSE TopleftLoop(pairs, i + 1, reasons)

_check_needs_no_topleft(d, reasons) ==
    IF IsInstance(d.attn_bias, {BlockDiagonalCausalMask})
    THEN TopleftLoop(ZipLongest(d.attn_bias.k_seqstart, d.attn_bias.q_seqstart), 1, reasons)
    ELSE IF IsInstance(d.attn_bias, {LowerTriangularMask})
         THEN IF d.query.shape[2] # d.key.shape[2]
              THEN Append(reasons, Reason(MSG_TOPLEFT_LOWERTRIANGULAR))
              ELSE reasons
         ELSE reasons

_check_strides_ignoring_single_head(x, name, reasons) ==
    IF Ndim(x) = 5
    THEN IF x.shape[3] = 1 THEN reasons
         ELSE IF x.stride[4] = 0 THEN reasons
         ELSE IF x.stride[3] # x.stride[4] * x.shape[Len(x.shape) - 1]
              THEN Append(reasons, [tag |-> MSG_GQA, name |-> name,
                                    stride |-> x.stride, shape |-> x.shape, dim |-> 0])
              ELSE reasons
    ELSE reasons

_check_strides_for_bmghk(x, name, reasons) ==
    IF Ndim(x) = 5
    THEN LET stride_g == x.stride[3]
             stride_h == x.stride[4]
         IN  IF x.shape[3] = 1 THEN reasons
             ELSE IF x.shape[4] = 1 \/ stride_h = 0 THEN reasons
             ELSE IF stride_g # stride_h * x.shape[Len(x.shape) - 1]
                  THEN Append(reasons, [tag |-> MSG_GQA, name |-> name,
                                        stride |-> x.stride, shape |-> x.shape, dim |-> 0])
                  ELSE reasons
    ELSE reasons

(* check_lastdim_alignment_stride1 of fmha/common.py. *)
check_lastdim_alignment_stride1(reasons, name, x, alignment) ==
    LET r1 == IF Last(x.shape) % alignment # 0
              THEN Append(reasons, [Reason(MSG_LASTDIM_ALIGNMENT) EXCEPT !.name = name])
              ELSE reasons
    IN  IF Last(x.stride) > 1
        THEN Append(r1, [Reason(MSG_LASTDIM_STRIDE) EXCEPT !.name = name])
        ELSE r1

(* shape_not_supported_reasons of the shared base class: the head          *)
(* dimension ceiling.                                                      *)
Base_shape_not_supported_reasons(Mq, Mkv, K, Kv) ==
    IF (IF K > Kv THEN K ELSE Kv) > SUPPORTED_MAX_K
    THEN <<[Reason(MSG_MAX_K) EXCEPT !.dim = IF K > Kv THEN K ELSE Kv]>>
    ELSE <<>>

BwOp_shape_without_256(Mq, Mkv, K, Kv) ==
    LET reasons == Base_shape_not_supported_reasons(Mq, Mkv, K, Kv) IN
    IF K \notin {8, 16, 32, 64, 128}
    THEN Append(reasons, [Reason(MSG_EMBED_DIM) EXCEPT !.dim = K])
    ELSE reasons

BwOp_shape_not_supported_reasons(Mq, Mkv, K, Kv) ==
    LET reasons == Base_shape_not_supported_reasons(Mq, Mkv, K, Kv) IN
    IF K \notin BW_SUPPORTED_EMBED_DIMS
    THEN Append(reasons, [Reason(MSG_EMBED_DIM) EXCEPT !.dim = K])
    ELSE reasons

(* not_supported_reasons of the shared base class: the operator's shape    *)
(* check, then the grouped-layout capability.  The device, dtype and mask  *)
(* variant checks never fire on the inputs modelled here.                  *)
Base_not_supported_reasons(shape_reasons, supports_bmghk, d) ==
    IF Ndim(d.query) = 5 /\ ~supports_bmghk
    THEN Append(shape_reasons, Reason(MSG_BMGHK))
    ELSE shape_reasons

ShapeArgs(d) ==
    <<d.query.shape[2], d.key.shape[2], Last(d.query.shape), Last(d.value.shape)>>

FwOp_not_supported_reasons(d) ==
    LET a == ShapeArgs(d)
        r0 == Base_not_supported_reasons(
                  Base_shape_not_supported_reasons(a[1], a[2], a[3], a[4]),
                  FW_SUPPORTS_BMGHK, d)
        r1 == check_lastdim_alignment_stride1(r0, "query", d.query, LASTDIM_ALIGNMENT)
        r2 == _check_needs_no_topleft(d, r1)
        r3 == _check_strides_for_bmghk(d.query, "query", r2)
        r4 == _check_strides_for_bmghk(d.key, "key", r3)
    IN  _check_strides_for_bmghk(d.value, "value", r4)

(* device_capability is what torch.cuda.get_device_capability returns. *)
BwOp_not_supported_reasons(d, device_capability) ==
    LET a == ShapeArgs(d)
        r0 == Base_not_supported_reasons(
                  BwOp_shape_not_supported_reasons(a[1], a[2], a[3], a[4]),
                  BW_SUPPORTS_BMGHK, d)
        r1 == check_lastdim_alignment_stride1(r0, "query", d.query, LASTDIM_ALIGNMENT)
        r2 == _check_needs_no_topleft(d, r1)
        kmax == IF Last(d.key.shape) > Last(d.query.shape)
                THEN Last(d.key.shape) ELSE Last(d.query.shape)
    IN  IF kmax > MAX_HEADDIM_SM8x /\ device_capability \notin {<<8, 0>>, <<9, 0>>}
        THEN Append(r2, Reason(MSG_SM8x))
        ELSE r2

(* ------------------------------- kernel ------------------------------- *)
(* flash_fwd: the output buffer is allocated by _flash_fwd; the kernel     *)
(* returns it with the log-sum-exp tensor [batch, heads, capacity], whose  *)
(* capacity is max_seqlen_q plus lse_pad, and a randomness token.          *)
flash_fwd(query, value, cu_seq_lens_q, max_seq_len_q, lse_pad, heap) ==
    [out |-> Empty(<<query.shape[1], query.shape[2], value.shape[3]>>, heap),
     softmax_lse |-> Empty(<<Len(cu_seq_lens_q) - 1, query.shape[2],
                             max_seq_len_q + lse_pad>>, heap + 1),
     rng_state |-> "rng_state"]

(* --------------------------- forward operator ------------------------- *)
FwOp_apply_reshape_always_rng(out_shape, c, k, heap) ==
    LET ok == c.ok /\ ReshapeOk(k.out, out_shape)
        out == IF ok THEN Reshape(k.out, out_shape, heap) ELSE k.out
    IN  [ok |-> ok,
         flat |-> c.inp,
         kernel_out |-> k.out,
         kernel_lse |-> k.softmax_lse,
         kernel_rng_state |-> k.rng_state,
         out |-> out,
         ctx |-> [out |-> out, lse |-> k.softmax_lse,
                  op_bw |-> "BwOp", rng_state |-> k.rng_state],
         call |-> [cu_seqlens_q |-> c.cu_seqlen_q, cu_seqlens_k |-> c.cu_seqlen_k,
                   max_seqlen_q |-> c.max_seqlen_q, max_seqlen_k |-> c.max_seqlen_k,
                   p |-> c.inp.p, softmax_scale |-> c.softmax_scale,
                   causal |-> _is_causal(c.inp.attn_bias), return_softmax |-> FALSE]]

(* The tail of FwOp.apply, from the kernel's return on: c is the converted *)
(* input, k what the kernel returned.  ok is FALSE when a reshape raises;  *)
(* ctx and out are then not returned.                                      *)
FwOp_apply_reshape(out_shape, c, k, heap) ==
    LET ok == c.ok /\ ReshapeOk(k.out, out_shape)
        out == IF ok THEN Reshape(k.out, out_shape, heap) ELSE k.out
    IN  [ok |-> ok,
         flat |-> c.inp,
         kernel_out |-> k.out,
         kernel_lse |-> k.softmax_lse,
         kernel_rng_state |-> k.rng_state,
         out |-> out,
         ctx |-> [out |-> out, lse |-> k.softmax_lse,
                  op_bw |-> IF c.inp.p # 0 THEN "BwOp" ELSE "None",
                  rng_state |-> IF c.inp.p # 0 THEN k.rng_state ELSE "None"],
         call |-> [cu_seqlens_q |-> c.cu_seqlen_q, cu_seqlens_k |-> c.cu_seqlen_k,
                   max_seqlen_q |-> c.max_seqlen_q, max_seqlen_k |-> c.max_seqlen_k,
                   p |-> c.inp.p, softmax_scale |-> c.softmax_scale,
                   causal |-> _is_causal(c.inp.attn_bias), return_softmax |-> FALSE]]

(* The kernel call of FwOp.apply on the converted input c. *)
FwOp_apply_kernel(out_shape, c, lse_pad, heap) ==
    FwOp_apply_reshape(out_shape, c,
        flash_fwd(c.inp.query, c.inp.value, c.cu_seqlen_q, c.max_seqlen_q, lse_pad, heap + 6),
        heap + 8)

FwOp_apply(inp, lse_pad, heap) ==
    FwOp_apply_kernel(Front(inp.query.shape) \o <<Last(inp.value.shape)>>,
                      _convert_input_format(inp, heap), lse_pad, heap)

(* -------------------------- backward operator ------------------------- *)
(* _get_storage_base of ops/common.py: the identity of the allocation.     *)
_get_storage_base(x) == x.base

(* The test that selects the single-chunk gradient layout. *)
SharesStorage(query, key, value) ==
    /\ query.shape[1] = key.shape[1]
    /\ query.shape[3] = value.shape[3]
    /\ _get_storage_base(query) = _get_storage_base(key)
    /\ _get_storage_base(query) = _get_storage_base(value)

AllocGrads_swapped(query, key, value, heap) ==
    IF /\ query.shape[1] = key.shape[1]
       /\ query.shape[3] = value.shape[3]
       /\ query.base = key.base
       /\ query.base = value.base
    THEN LET chunk == Empty(<<query.shape[1], 3, query.shape[2], query.shape[3]>>, heap)
         IN  [shared |-> TRUE, chunk |-> chunk,
              dq |-> Select(chunk, 2, 0), dk |-> Select(chunk, 2, 2),
              dv |-> Select(chunk, 2, 1)]
    ELSE [shared |-> FALSE, chunk |-> <<>>,
          dq |-> EmptyLike(query, heap), dk |-> EmptyLike(key, heap + 1),
          dv |-> EmptyLike(value, heap + 2)]

AllocGrads_dk_like_query(query, key, value, heap) ==
    IF /\ query.shape[1] = key.shape[1]
       /\ query.shape[3] = value.shape[3]
       /\ query.base = key.base
       /\ query.base = value.base
    THEN LET chunk == Empty(<<query.shape[1], 3, query.shape[2], query.shape[3]>>, heap)
         IN  [shared |-> TRUE, chunk |-> chunk,
              dq |-> Select(chunk, 2, 0), dk |-> Select(chunk, 2, 1),
              dv |-> Select(chunk, 2, 2)]
    ELSE [shared |-> FALSE, chunk |-> <<>>,
          dq |-> EmptyLike(query, heap), dk |-> EmptyLike(query, heap + 1),
          dv |-> EmptyLike(value, heap + 2)]

(* Create dq, dk, dv: slices of one chunk, or three buffers.  The chunk is *)
(* allocation heap; the separate buffers are heap, heap + 1, heap + 2.     *)
AllocGrads(query, key, value, heap) ==
    IF SharesStorage(query, key, value)
    THEN LET chunk == Empty(<<query.shape[1], 3, query.shape[2], query.shape[3]>>, heap)
         IN  [shared |-> TRUE, chunk |-> chunk,
              dq |-> Select(chunk, 2, 0), dk |-> Select(chunk, 2, 1),
              dv |-> Select(chunk, 2, 2)]
    ELSE [shared |-> FALSE, chunk |-> <<>>,
          dq |-> EmptyLike(query, heap), dk |-> EmptyLike(key, heap + 1),
          dv |-> EmptyLike(value, heap + 2)]

(* The tail of BwOp.apply, from the kernel call on: c is the converted     *)
(* input, g the gradient buffers.  ok is FALSE when an assertion fails or  *)
(* a reshape raises.                                                       *)
BwOp_apply_kernel(ctx, inp, grad, c, g, heap) ==
    LET kernel_out_shape == <<c.inp.query.shape[1], c.inp.query.shape[2],
                              c.inp.value.shape[3]>>
        ok == /\ c.ok
              /\ ctx.lse.shape[3] >= c.max_seqlen_q
              /\ ReshapeOk(grad, kernel_out_shape)
              /\ ReshapeOk(ctx.out, kernel_out_shape)
              /\ ReshapeOk(g.dq, inp.query.shape)
              /\ ReshapeOk(g.dk, inp.key.shape)
              /\ ReshapeOk(g.dv, inp.value.shape)
    IN  [ok |-> ok,
         flat |-> c.inp,
         shared |-> g.shared,
         chunk |-> g.chunk,
         buffers |-> <<g.dq, g.dk, g.dv>>,
         grads |-> IF ok
                   THEN [dq |-> Reshape(g.dq, inp.query.shape, heap + 10),
                         dk |-> Reshape(g.dk, inp.key.shape, heap + 11),
                         dv |-> Reshape(g.dv, inp.value.shape, heap + 12)]
                   ELSE [dq |-> g.dq, dk |-> g.dk, dv |-> g.dv],
         call |-> [cu_seqlens_q |-> c.cu_seqlen_q, cu_seqlens_k |-> c.cu_seqlen_k,
                   max_seqlen_q |-> c.max_seqlen_q, max_seqlen_k |-> c.max_seqlen_k,
                   lse |-> IF c.max_seqlen_q # ctx.lse.shape[3]
                           THEN Empty(<<ctx.lse.shape[1], ctx.lse.shape[2],
                                        c.max_seqlen_q>>, heap + 6)
                           ELSE ctx.lse,
                   p |-> c.inp.p, softmax_scale |-> c.softmax_scale,
                   causal |-> _is_causal(c.inp.attn_bias), rng_state |-> ctx.rng_state]]

(* The gradient allocation of BwOp.apply on the converted input c. *)
BwOp_apply_alloc(ctx, inp, grad, c, heap) ==
    BwOp_apply_kernel(ctx, inp, grad, c,
                      AllocGrads(c.inp.query, c.inp.key, c.inp.value, heap + 7), heap)

BwOp_apply(ctx, inp, grad, heap) ==
    BwOp_apply_alloc(ctx, inp, grad, _convert_input_format(inp, heap), heap)

(* ---------------------------- state machine --------------------------- *)
VARIABLES
    pc,        \* which operation has run on inp
    inp,       \* the Attention Input built by the caller
    conv,      \* result of _convert_input_format
    reasons,   \* result of a validator
    fw,        \* result of FwOp.apply
    bw,        \* result of BwOp.apply
    heap       \* next unused allocation identity

vars == <<pc, inp, conv, reasons, fw, bw, heap>>

LsePads == {0, 1}
Capabilities == {<<8, 0>>, <<8, 6>>, <<9, 0>>}

Init ==
    /\ pc = "idle"
    /\ inp \in Inputs
    /\ conv = <<>>
    /\ reasons = <<>>
    /\ fw = <<>>
    /\ bw = <<>>
    /\ heap = 4

ConvertInputFormat ==
    /\ pc = "idle"
    /\ conv' = _convert_input_format(inp, heap)
    /\ heap' = heap + 6
    /\ pc' = "converted"
    /\ UNCHANGED <<inp, reasons, fw, bw>>

FwNotSupportedReasons ==
    /\ pc = "idle"
    /\ reasons' = FwOp_not_supported_reasons(inp)
    /\ pc' = "fw_checked"
    /\ UNCHANGED <<inp, conv, fw, bw, heap>>

BwNotSupportedReasons ==
    /\ pc = "idle"
    /\ \E cap \in Capabilities : reasons' = BwOp_not_supported_reasons(inp, cap)
    /\ pc' = "bw_checked"
    /\ UNCHANGED <<inp, conv, fw, bw, heap>>

FwApply ==
    /\ pc = "idle"
    /\ \E pad \in LsePads : fw' = FwOp_apply(inp, pad, heap)
    /\ heap' = heap + 9
    /\ pc' = IF fw'.ok THEN "fw_done" ELSE "fw_error"
    /\ UNCHANGED <<inp, conv, reasons, bw>>

(* The upstream gradient is a new tensor shaped like the forward output. *)
BwApply ==
    /\ pc = "fw_done"
    /\ bw' = BwOp_apply(fw.ctx, inp, Empty(fw.out.shape, heap), heap + 1)
    /\ heap' = heap + 14
    /\ pc' = IF bw'.ok THEN "bw_done" ELSE "bw_error"
    /\ UNCHANGED <<inp, conv, reasons, fw>>

Next ==
    \/ ConvertInputFormat
    \/ FwNotSupportedReasons
    \/ BwNotSupportedReasons
    \/ FwApply
    \/ BwApply

Spec == Init /\ [][Next]_vars

(* ============================== claims ================================ *)
QKV == {"query", "key", "value"}
Batch0 == inp.query.shape[1]
SeqlenQ0 == inp.query.shape[2]
SeqlenK0 == inp.key.shape[2]
HeaddimQ0 == Last(inp.query.shape)
HeaddimV0 == Last(inp.value.shape)
DenseInput == inp.attn_bias.kind \in {NoBias, LowerTriangularMask}
FwRan == pc \in {"fw_done", "fw_error"}
BwRan == pc \in {"bw_done", "bw_error"}
CountReasons(rs, tags, names) ==
    Cardinality({i \in 1..Len(rs) : rs[i].tag \in tags /\ rs[i].name \in names})

(* C1: for a dense input (mask None or LowerTriangularMask) the converter  *)
(* returns offset tables of length batch + 1 with cu_seqlen_k[i] =         *)
(* i * seqlen_k and cu_seqlen_q[i] = i * seqlen_q, max_seqlen_q = seqlen_q *)
(* and max_seqlen_k = seqlen_k; with equal sequence lengths the two tables *)
(* are the same.                                                           *)
C1_DenseOffsetTables ==
    (pc = "converted" /\ DenseInput) =>
        /\ Len(conv.cu_seqlen_q) = Batch0 + 1
        /\ Len(conv.cu_seqlen_k) = Batch0 + 1
        /\ \A i \in 0..Batch0 :
              /\ conv.cu_seqlen_k[i + 1] = i * SeqlenK0
              /\ conv.cu_seqlen_q[i + 1] = i * SeqlenQ0
        /\ conv.max_seqlen_q = SeqlenQ0
        /\ conv.max_seqlen_k = SeqlenK0
        /\ (SeqlenQ0 = SeqlenK0 => conv.cu_seqlen_q = conv.cu_seqlen_k)

C1_Witness ==
    /\ pc = "converted"
    /\ inp.attn_bias.kind = LowerTriangularMask
    /\ Batch0 = 2 /\ SeqlenQ0 = 1 /\ SeqlenK0 = 2
    /\ conv.cu_seqlen_k = <<0, 2, 4>>
    /\ conv.cu_seqlen_q = <<0, 1, 2>>

(* Per-block token counts of an offset table. *)
BlockCounts(seqstart) == [i \in 1..(Len(seqstart) - 1) |-> seqstart[i + 1] - seqstart[i]]

UnequalBlocks(bias) ==
    LET q == BlockCounts(bias.q_seqstart)
        k == BlockCounts(bias.k_seqstart)
    IN  Len(q) # Len(k) \/ \E i \in 1..Len(q) : q[i] # k[i]

(* C2: the no-top-left check of both validators appends exactly one reason *)
(* when the mask is a BlockDiagonalCausalMask with a block whose query and *)
(* key counts differ (or with offset tables of different lengths), or a    *)
(* LowerTriangularMask with seqlen_q # seqlen_k, and none in every other   *)
(* case, whatever the block lengths of the other variants.                 *)
C2_NoTopLeft ==
    pc \in {"fw_checked", "bw_checked"} =>
        /\ CountReasons(reasons, {MSG_TOPLEFT_BLOCKDIAGONAL}, {""}) =
              (IF inp.attn_bias.kind = BlockDiagonalCausalMask /\ UnequalBlocks(inp.attn_bias)
               THEN 1 ELSE 0)
        /\ CountReasons(reasons, {MSG_TOPLEFT_LOWERTRIANGULAR}, {""}) =
              (IF inp.attn_bias.kind = LowerTriangularMask /\ SeqlenQ0 # SeqlenK0
               THEN 1 ELSE 0)

C2_Witness ==
    /\ pc = "bw_checked"
    /\ inp.attn_bias.kind = BlockDiagonalCausalMask
    /\ BlockCounts(inp.attn_bias.q_seqstart) = <<1, 2>>
    /\ BlockCounts(inp.attn_bias.k_seqstart) = <<1, 1>>
    /\ CountReasons(reasons, {MSG_TOPLEFT_BLOCKDIAGONAL}, {""}) = 1

(* What both readings of C3 agree on: folding a rank-5 tensor gives a      *)
(* rank-4 tensor with batch, seqlen and headdim unchanged, and             *)
(* groups * heads_per_group heads when the layout is contiguous.           *)
FoldKeepsOuterAxes(x, f) ==
    /\ Len(f.shape) = 4
    /\ f.shape[1] = x.shape[1] /\ f.shape[2] = x.shape[2] /\ f.shape[4] = x.shape[5]
    /\ (x.stride[4] # 0 /\ x.stride = ContigStrides(x.shape)
            => f.shape[3] = x.shape[3] * x.shape[4])
    /\ (x.stride[4] = 0 => f.base = x.base /\ f.offset = x.offset)

(* C3 as stated: with a zero-stride per-group-head axis the folded tensor  *)
(* has as many heads as the per-group-head count.                          *)
C3_Original ==
    (pc = "converted" /\ Ndim(inp.query) = 5) =>
        \A t \in QKV :
            /\ FoldKeepsOuterAxes(inp[t], conv.folded[t])
            /\ (inp[t].stride[4] = 0 => conv.folded[t].shape[3] = inp[t].shape[4])

(* C3 amended: with a zero-stride per-group-head axis, folding selects     *)
(* index 0 along that axis (a view), so the folded tensor has as many      *)
(* heads as the group count; with a contiguous layout it has               *)
(* groups * heads_per_group heads; batch, seqlen and headdim are unchanged.*)
C3_FoldHeadCount ==
    (pc = "converted" /\ Ndim(inp.query) = 5) =>
        \A t \in QKV :
            /\ FoldKeepsOuterAxes(inp[t], conv.folded[t])
            /\ (inp[t].stride[4] = 0 => conv.folded[t].shape[3] = inp[t].shape[3])

C3_Witness ==
    /\ pc = "converted"
    /\ Ndim(inp.key) = 5
    /\ inp.key.stride[4] = 0
    /\ inp.key.shape[3] = 2 /\ inp.key.shape[4] = 1
    /\ conv.folded.key.shape[3] = 2
    /\ inp.query.stride = ContigStrides(inp.query.shape)
    /\ inp.query.shape[3] = 2
    /\ conv.folded.query.shape[3] = 2

GqaReasonsAbout(t) == CountReasons(reasons, {MSG_GQA}, {t})

GqaReasonsNameTensor ==
    \A i \in 1..Len(reasons) :
        reasons[i].tag = MSG_GQA =>
            /\ reasons[i].name \in QKV
            /\ reasons[i].stride = inp[reasons[i].name].stride
            /\ reasons[i].shape = inp[reasons[i].name].shape

(* C4 as stated: a rank-5 tensor gets a reason exactly when G # 1, the     *)
(* per-group-head stride is not 0 and stride_g # stride_h * H.             *)
C4_Original ==
    pc = "fw_checked" =>
        /\ GqaReasonsNameTensor
        /\ \A t \in QKV :
              GqaReasonsAbout(t) =
                 (IF /\ Ndim(inp[t]) = 5
                     /\ inp[t].shape[3] # 1
                     /\ inp[t].stride[4] # 0
                     /\ inp[t].stride[3] # inp[t].stride[4] * inp[t].shape[4]
                  THEN 1 ELSE 0)

(* C4 amended: the forward validator appends, for each of query, key and   *)
(* value on its own, one reason naming the tensor, its strides and its     *)
(* shape exactly when the tensor is rank 5, G # 1, H # 1, the              *)
(* per-group-head stride is not 0 and stride_g # stride_h * H; nothing     *)
(* otherwise, and nothing for a rank-4 tensor.                             *)
C4_GqaStrideRule ==
    pc = "fw_checked" =>
        /\ GqaReasonsNameTensor
        /\ \A t \in QKV :
              GqaReasonsAbout(t) =
                 (IF /\ Ndim(inp[t]) = 5
                     /\ inp[t].shape[3] # 1
                     /\ inp[t].shape[4] # 1
                     /\ inp[t].stride[4] # 0
                     /\ inp[t].stride[3] # inp[t].stride[4] * inp[t].shape[4]
                  THEN 1 ELSE 0)

C4_Witness ==
    /\ pc = "fw_checked"
    /\ Ndim(inp.query) = 5
    /\ inp.query.shape[3] = 2 /\ inp.query.shape[4] = 2
    /\ GqaReasonsAbout("query") = 1
    /\ GqaReasonsAbout("key") = 0
    /\ GqaReasonsAbout("value") = 1
    /\ inp.key.stride[4] = 0

(* Allocations that exist before BwOp.apply creates its gradient buffers:  *)
(* the caller's tensors, their flattened forms, and the forward results.   *)
BasesBeforeGrads ==
    {inp[t].base : t \in QKV} \cup {bw.flat[t].base : t \in QKV}
        \cup {fw.out.base, fw.kernel_lse.base}

(* What both readings of C5 agree on: on the sharing path dq, dk, dv are   *)
(* slices 0, 1, 2 of one new contiguous [tokens, 3, heads, headdim] block; *)
(* otherwise they are three new buffers shaped like the flattened query,   *)
(* key and value with no common storage; they never alias the inputs.      *)
GradBufferLayout ==
    LET q == bw.flat.query
        b == bw.buffers
    IN  /\ bw.shared =>
              /\ bw.chunk.shape = <<q.shape[1], 3, q.shape[2], q.shape[3]>>
              /\ bw.chunk.stride = ContigStrides(bw.chunk.shape)
              /\ bw.chunk.base \notin BasesBeforeGrads
              /\ \A i \in 1..3 :
                    /\ b[i].base = bw.chunk.base
                    /\ b[i].offset = (i - 1) * q.shape[2] * q.shape[3]
                    /\ b[i].shape = q.shape
                    /\ b[i].stride = <<3 * q.shape[2] * q.shape[3], q.shape[3], 1>>
        /\ ~bw.shared =>
              /\ b[1].shape = bw.flat.query.shape
              /\ b[2].shape = bw.flat.key.shape
              /\ b[3].shape = bw.flat.value.shape
              /\ Cardinality({b[i].base : i \in 1..3}) = 3
              /\ \A i \in 1..3 : b[i].base \notin BasesBeforeGrads
        /\ bw.ok => \A t \in {bw.grads.dq, bw.grads.dk, bw.grads.dv} :
                        t.base \notin BasesBeforeGrads

(* C5 as stated: the sharing path is taken exactly when query, key and     *)
(* value share one allocation and their batch and value head dimension     *)
(* match.                                                                  *)
C5_Original ==
    BwRan =>
        /\ bw.shared <=>
              /\ inp.query.base = inp.key.base /\ inp.query.base = inp.value.base
              /\ inp.query.shape[1] = inp.key.shape[1]
              /\ HeaddimQ0 = HeaddimV0
        /\ GradBufferLayout

(* C5 amended: the sharing path is taken exactly when the flattened query, *)
(* key and value share one allocation, the flattened query and key have    *)
(* the same token count (batch * seqlen) and the query and value head      *)
(* dimensions are equal; then dq, dk, dv are slices 0, 1, 2 of one new     *)
(* contiguous block, otherwise three new buffers shaped like the flattened *)
(* tensors with no common storage; the buffers never alias the inputs.     *)
C5_GradientBuffers ==
    BwRan =>
        /\ bw.shared <=>
              /\ bw.flat.query.base = bw.flat.key.base
              /\ bw.flat.query.base = bw.flat.value.base
              /\ Batch0 * SeqlenQ0 = Batch0 * SeqlenK0
              /\ HeaddimQ0 = HeaddimV0
        /\ GradBufferLayout

C5_Witness ==
    /\ pc = "bw_done"
    /\ bw.shared
    /\ Batch0 = 2 /\ SeqlenQ0 = 2
    /\ bw.buffers[2].offset = inp.query.shape[3] * HeaddimQ0
    /\ bw.buffers[3].offset = 2 * inp.query.shape[3] * HeaddimQ0

FoldedQueryHeads ==
    IF Ndim(inp.query) = 4 THEN inp.query.shape[3]
    ELSE IF inp.query.stride[4] = 0 THEN inp.query.shape[3]
    ELSE inp.query.shape[3] * inp.query.shape[4]

(* C6: for every input the forward validator accepts, FwOp.apply gets a    *)
(* flat kernel output [total_query_tokens, folded_query_heads,             *)
(* value_headdim] and reshapes it without error to the query's original    *)
(* leading dimensions followed by the value head dimension.                *)
C6_ForwardRoundTrip ==
    (FwRan /\ FwOp_not_supported_reasons(inp) = <<>>) =>
        /\ fw.kernel_out.shape = <<Batch0 * SeqlenQ0, FoldedQueryHeads, HeaddimV0>>
        /\ fw.ok
        /\ fw.out.shape = Front(inp.query.shape) \o <<HeaddimV0>>

(* C7: on inputs in the layout BwOp supports, BwOp.apply returns dq, dk,   *)
(* dv with the original shapes of query, key and value on both allocation  *)
(* paths; and whenever the sharing path is taken the three slices of the   *)
(* block reshape to those shapes, so the final reshape does not fail.      *)
C7_GradientShapes ==
    BwRan =>
        /\ (bw.shared \/ Ndim(inp.query) = 4 \/ BW_SUPPORTS_BMGHK) =>
              /\ bw.ok
              /\ bw.grads.dq.shape = inp.query.shape
              /\ bw.grads.dk.shape = inp.key.shape
              /\ bw.grads.dv.shape = inp.value.shape
        /\ bw.shared =>
              /\ bw.flat.query.shape[1] = bw.flat.key.shape[1]
              /\ HeaddimQ0 = HeaddimV0
              /\ \A i \in 1..3 :
                    bw.buffers[i].shape = <<Batch0 * SeqlenQ0, bw.flat.query.shape[2], HeaddimQ0>>

C7_Witness ==
    /\ pc = "bw_done"
    /\ bw.shared
    /\ Ndim(inp.query) = 4
    /\ Batch0 = 2 /\ SeqlenK0 = 2 /\ inp.key.shape[3] = 2
    /\ bw.grads.dk.shape = <<2, 2, 2, 8>>
    /\ bw.buffers[2].shape = <<4, 2, 8>>

C7_WitnessSeparate ==
    /\ pc = "bw_done"
    /\ ~bw.shared
    /\ SeqlenQ0 # SeqlenK0
    /\ HeaddimQ0 # HeaddimV0
    /\ bw.grads.dv.shape = inp.value.shape

(* C8: both validators reject a head dimension above 256; the backward     *)
(* validator also rejects every head dimension outside {8, 16, 32, 64,     *)
(* 128, 256} with an "Embed dim not supported" reason, and for head        *)
(* dimensions inside that set its shape check gives exactly the reasons of *)
(* the shared base check.                                                  *)
C8_HeadDimension ==
    LET big == HeaddimQ0 > 256 \/ HeaddimV0 > 256
        embed == [Reason(MSG_EMBED_DIM) EXCEPT !.dim = HeaddimQ0]
        shape_reasons == SelectSeq(reasons, LAMBDA r : r.tag \in {MSG_MAX_K, MSG_EMBED_DIM})
    IN  /\ pc = "fw_checked" =>
              /\ big => reasons # <<>>
              /\ CountReasons(reasons, {MSG_EMBED_DIM}, {""}) = 0
        /\ pc = "bw_checked" =>
              /\ big => reasons # <<>>
              /\ HeaddimQ0 \notin {8, 16, 32, 64, 128, 256} =>
                    /\ Len(shape_reasons) > 0
                    /\ shape_reasons[Len(shape_reasons)] = embed
                    /\ CountReasons(reasons, {MSG_EMBED_DIM}, {""}) = 1
              /\ HeaddimQ0 \in {8, 16, 32, 64, 128, 256} =>
                    shape_reasons = Base_shape_not_supported_reasons(
                                        SeqlenQ0, SeqlenK0, HeaddimQ0, HeaddimV0)

C8_Witness ==
    /\ pc = "bw_checked"
    /\ HeaddimQ0 = 24
    /\ reasons = <<[Reason(MSG_EMBED_DIM) EXCEPT !.dim = 24]>>

C8_WitnessCeiling ==
    /\ pc = "fw_checked"
    /\ HeaddimQ0 = 264
    /\ reasons # <<>>

(* C9: the causal flag passed to the kernel is true exactly for            *)
(* LowerTriangularMask, BlockDiagonalCausalMask and                        *)
(* BlockDiagonalCausalFromBottomRightMask, false for no mask and for a     *)
(* plain BlockDiagonalMask; forward and backward pass the same flag for    *)
(* the same input.                                                         *)
C9_CausalFlag ==
    LET causal == inp.attn_bias.kind \in {LowerTriangularMask, BlockDiagonalCausalMask,
                                          BlockDiagonalCausalFromBottomRightMask}
    IN  /\ (FwRan \/ BwRan) => fw.call.causal = causal
        /\ BwRan => bw.call.causal = causal /\ bw.call.causal = fw.call.causal

C9_Witness ==
    /\ pc = "bw_done"
    /\ inp.attn_bias.kind = BlockDiagonalCausalFromBottomRightMask
    /\ fw.call.causal
    /\ bw.call.causal

(* C10: the context returned by FwOp.apply carries the reshaped output and *)
(* the kernel's log-sum-exp tensor; it carries the randomness token and    *)
(* the reference to BwOp exactly when the dropout probability is above 0,  *)
(* and both stay unset with dropout 0 although the kernel returned a       *)
(* token.                                                                  *)
C10_ResultContext ==
    pc = "fw_done" =>
        /\ fw.ctx.out = fw.out
        /\ fw.ctx.out.shape = Front(inp.query.shape) \o <<HeaddimV0>>
        /\ fw.ctx.lse = fw.kernel_lse
        /\ fw.kernel_rng_state # "None"
        /\ (inp.p > 0 <=> fw.ctx.rng_state = fw.kernel_rng_state)
        /\ (inp.p > 0 <=> fw.ctx.op_bw = "BwOp")
        /\ (inp.p = 0 => fw.ctx.rng_state = "None" /\ fw.ctx.op_bw = "None")

C10_Witness ==
    /\ pc = "fw_done"
    /\ inp.p = 5
    /\ fw.ctx.rng_state = "rng_state"
    /\ fw.ctx.op_bw = "BwOp"

C10_WitnessNoDropout ==
    /\ pc = "fw_done"
    /\ inp.p = 0
    /\ fw.ctx.rng_state = "None"

====
